---- MODULE Spec2Model ----
(***************************************************************************)
(* Model of the N1 Encoder Actions plugin (src/src/main.rs): the device    *)
(* watcher, the per-device sessions (handle_device), the raw input mapping *)
(* (process_input_n1), the update dispatch (handle_device_update) and the  *)
(* rotation commands (execute_rotation and the execute_* functions).       *)
(***************************************************************************)
EXTENDS Integers, Sequences, FiniteSets, TLC

\* ------------------------------------------------------------------ bounds
\* Session slots: the number of handle_device tasks alive at the same time.
MaxSessions == 2
\* Lifecycle events waiting in the watcher's stream.
MaxEvents == 1

\* Button indices 0..MaxKey in the updates a session reads.
MaxKey == 1
\* Twist values -MaxTwist..MaxTwist in the updates a session reads.
MaxTwist == 1

\* ------------------------------------------------------- program constants
N1_VID == 768
N1_PID == 12295
DEVICE_NAMESPACE == "N1"

\* ------------------------------------------------------------ HID devices
\* Option<String>: << >> is None, <<s>> is Some(s).
None == << >>
Some(x) == <<x>>

\* The HID devices that can be plugged in, in the order list_devices
\* enumerates them: a device of another vendor, an N1 without a serial
\* number, and an N1 dial with one.
OtherVid == N1_VID + 1
HidList ==
    << [vendor_id |-> OtherVid, product_id |-> N1_PID, serial_number |-> Some("A")],
       [vendor_id |-> N1_VID, product_id |-> N1_PID, serial_number |-> None],
       [vendor_id |-> N1_VID, product_id |-> N1_PID, serial_number |-> Some("A")] >>
HidUniverse == { HidList[k] : k \in 1..Len(HidList) }

\* get_device_id without the vendor id test.
get_device_id_NoVendorCheck(dev) ==
    IF dev.product_id = N1_PID
    THEN IF dev.serial_number = None
         THEN None
         ELSE Some(DEVICE_NAMESPACE \o "-" \o dev.serial_number[1])
    ELSE None

get_device_id(dev) ==
    IF dev.vendor_id = N1_VID /\ dev.product_id = N1_PID
    THEN IF dev.serial_number = None
         THEN None
         ELSE Some(DEVICE_NAMESPACE \o "-" \o dev.serial_number[1])
    ELSE None

\* Every device id a device of the universe can get.
Ids == { get_device_id(d)[1] : d \in { e \in HidUniverse : get_device_id(e) # None } }

\* ------------------------------------------------------- process_input_n1
N1_ENCODER_COUNT == 3
INPUT_DIAL_CCW == 50
INPUT_DIAL_CW == 51
INPUT_DIAL_PRESS == 35

\* u8
Bytes == 0..255

\* Result<DeviceInput, MirajazzError>. A Vec of the three encoders is a
\* sequence: encoder i is element i + 1.
OkInput(kind, vec) == [ok |-> TRUE, kind |-> kind, vec |-> vec]
BadData == [ok |-> FALSE, err |-> "BadData"]
EncoderAt(vec, i) == vec[i + 1]

process_input_n1_Swapped(input, input_state) ==
    CASE input = INPUT_DIAL_CCW -> OkInput("EncoderTwist", <<0, 0, 1>>)
      [] input = INPUT_DIAL_CW -> OkInput("EncoderTwist", <<0, 0, -1>>)
      [] input = INPUT_DIAL_PRESS ->
           OkInput("EncoderStateChange", <<FALSE, FALSE, input_state # 0>>)
      [] OTHER -> BadData

process_input_n1_PressInverted(input, input_state) ==
    CASE input = INPUT_DIAL_CCW -> OkInput("EncoderTwist", <<0, 0, -1>>)
      [] input = INPUT_DIAL_CW -> OkInput("EncoderTwist", <<0, 0, 1>>)
      [] input = INPUT_DIAL_PRESS ->
           OkInput("EncoderStateChange", <<FALSE, FALSE, input_state = 0>>)
      [] OTHER -> BadData

process_input_n1_Lenient(input, input_state) ==
    CASE input = INPUT_DIAL_CCW -> OkInput("EncoderTwist", <<0, 0, -1>>)
      [] input = INPUT_DIAL_CW -> OkInput("EncoderTwist", <<0, 0, 1>>)
      [] input = INPUT_DIAL_PRESS ->
           OkInput("EncoderStateChange", <<FALSE, FALSE, input_state # 0>>)
      [] OTHER -> OkInput("EncoderTwist", <<0, 0, 0>>)

process_input_n1(input, input_state) ==
    CASE input = INPUT_DIAL_CCW -> OkInput("EncoderTwist", <<0, 0, -1>>)
      [] input = INPUT_DIAL_CW -> OkInput("EncoderTwist", <<0, 0, 1>>)
      [] input = INPUT_DIAL_PRESS ->
           OkInput("EncoderStateChange", <<FALSE, FALSE, input_state # 0>>)
      [] OTHER -> BadData

\* ------------------------------------------------------- command execution
Modes == {"Volume", "MediaTrack", "MediaSeek", "Scroll", "Brightness", "Custom"}

\* ActionSettings::default()
ActionSettingsDefault == [mode |-> "Volume", cw_command |-> "", ccw_command |-> ""]

\* What Command::new("sh").arg("-c").arg(cmd).output() can come to.
ShellOutcomes == {"spawn_failed", "exit_nonzero", "exit_zero"}

\* output()? and, where the function checks it, output.status.success():
\* the commands handed to sh and the function's result.
RunChecked(cmd, outcome) ==
    [cmds |-> <<cmd>>, result |-> IF outcome = "exit_zero" THEN "Ok" ELSE "Err"]
RunUnchecked(cmd, outcome) ==
    [cmds |-> <<cmd>>, result |-> IF outcome = "spawn_failed" THEN "Err" ELSE "Ok"]
RanNothing == [cmds |-> << >>, result |-> "Ok"]

execute_volume(direction, outcome) ==
    LET sign == IF direction > 0 THEN "+" ELSE "-"
    IN RunChecked("amixer sset Master 5%" \o sign, outcome)

\* execute_media_track with the exit status test of execute_volume.
execute_media_track_ChecksStatus(direction, outcome) ==
    RunChecked(IF direction > 0 THEN "playerctl next" ELSE "playerctl previous",
               outcome)

execute_media_track(direction, outcome) ==
    RunUnchecked(IF direction > 0 THEN "playerctl next" ELSE "playerctl previous",
                 outcome)

execute_media_seek(direction, outcome) ==
    RunUnchecked(IF direction > 0 THEN "playerctl position 5+"
                                  ELSE "playerctl position 5-", outcome)

execute_scroll(direction, outcome) ==
    LET button == IF direction > 0 THEN 5 ELSE 4
    IN RunChecked("xdotool click --repeat 3 " \o ToString(button), outcome)

execute_brightness(direction, outcome) ==
    LET sign == IF direction > 0 THEN "+" ELSE "-"
    IN RunChecked("brightnessctl set 10%" \o sign, outcome)

execute_custom(direction, settings, outcome) ==
    LET cmd == IF direction > 0 THEN settings.cw_command ELSE settings.ccw_command
    IN IF cmd = "" THEN RanNothing ELSE RunChecked(cmd, outcome)

\* The match on settings.mode in execute_rotation.
RunMode_ZeroIsClockwise(settings, direction, outcome) ==
    LET d == IF direction >= 0 THEN 1 ELSE -1 IN
    CASE settings.mode = "Volume" -> execute_volume(d, outcome)
      [] settings.mode = "MediaTrack" -> execute_media_track(d, outcome)
      [] settings.mode = "MediaSeek" -> execute_media_seek(d, outcome)
      [] settings.mode = "Scroll" -> execute_scroll(d, outcome)
      [] settings.mode = "Brightness" -> execute_brightness(d, outcome)
      [] settings.mode = "Custom" -> execute_custom(d, settings, outcome)

RunMode(settings, direction, outcome) ==
    CASE settings.mode = "Volume" -> execute_volume(direction, outcome)
      [] settings.mode = "MediaTrack" -> execute_media_track(direction, outcome)
      [] settings.mode = "MediaSeek" -> execute_media_seek(direction, outcome)
      [] settings.mode = "Scroll" -> execute_scroll(direction, outcome)
      [] settings.mode = "Brightness" -> execute_brightness(direction, outcome)
      [] settings.mode = "Custom" -> execute_custom(direction, settings, outcome)

\* execute_rotation: the settings are ActionSettings::default(); an Err is
\* logged.
execute_rotation(direction, outcome) ==
    LET r == RunMode(ActionSettingsDefault, direction, outcome)
    IN [cmds |-> r.cmds, host |-> << >>, logged |-> r.result = "Err"]

\* ---------------------------------------------------- handle_device_update
\* `as i8` and `as i16` of an integer.
AsI8(v) == ((v + 128) % 256) - 128
AsI16(v) == ((v + 32768) % 65536) - 32768

DIAL == 2

\* One call of openaction::device_plugin: what is sent, and whether the
\* handler logs its failure.
HostCall(call, device_id, index, value, logs, hostOk) ==
    [cmds |-> << >>,
     host |-> <<[call |-> call, device |-> device_id, index |-> index, value |-> value]>>,
     logged |-> logs /\ ~hostOk]

\* encoder_down, encoder_up, key_down and key_up take no value.
NoValue == << >>

handle_device_update_ForwardDial(device_id, update, shell, hostOk) ==
    CASE update.kind = "EncoderTwist" ->
           HostCall("encoder_change", device_id, update.index, <<AsI16(update.value)>>,
                    FALSE, hostOk)
      [] update.kind = "EncoderDown" ->
           HostCall("encoder_down", device_id, update.index, NoValue,
                    update.index = DIAL, hostOk)
      [] update.kind = "EncoderUp" ->
           HostCall("encoder_up", device_id, update.index, NoValue,
                    update.index = DIAL, hostOk)
      [] update.kind = "ButtonDown" ->
           HostCall("key_down", device_id, update.index, NoValue, FALSE, hostOk)
      [] update.kind = "ButtonUp" ->
           HostCall("key_up", device_id, update.index, NoValue, FALSE, hostOk)

handle_device_update_UpAsDown(device_id, update, shell, hostOk) ==
    CASE update.kind = "EncoderTwist" /\ update.index = DIAL ->
           execute_rotation(AsI8(update.value), shell)
      [] update.kind = "EncoderTwist" ->
           HostCall("encoder_change", device_id, update.index, <<AsI16(update.value)>>,
                    FALSE, hostOk)
      [] update.kind \in {"EncoderDown", "EncoderUp"} ->
           HostCall("encoder_down", device_id, update.index, NoValue,
                    update.index = DIAL, hostOk)
      [] update.kind = "ButtonDown" ->
           HostCall("key_down", device_id, update.index, NoValue, FALSE, hostOk)
      [] update.kind = "ButtonUp" ->
           HostCall("key_up", device_id, update.index, NoValue, FALSE, hostOk)

handle_device_update(device_id, update, shell, hostOk) ==
    CASE update.kind = "EncoderTwist" /\ update.index = DIAL ->
           execute_rotation(AsI8(update.value), shell)
      [] update.kind = "EncoderDown" /\ update.index = DIAL ->
           HostCall("encoder_down", device_id, DIAL, NoValue, TRUE, hostOk)
      [] update.kind = "EncoderUp" /\ update.index = DIAL ->
           HostCall("encoder_up", device_id, DIAL, NoValue, TRUE, hostOk)
      [] update.kind = "EncoderDown" ->
           HostCall("encoder_down", device_id, update.index, NoValue, FALSE, hostOk)
      [] update.kind = "EncoderUp" ->
           HostCall("encoder_up", device_id, update.index, NoValue, FALSE, hostOk)
      [] update.kind = "EncoderTwist" ->
           HostCall("encoder_change", device_id, update.index, <<AsI16(update.value)>>,
                    FALSE, hostOk)
      [] update.kind = "ButtonDown" ->
           HostCall("key_down", device_id, update.index, NoValue, FALSE, hostOk)
      [] update.kind = "ButtonUp" ->
           HostCall("key_up", device_id, update.index, NoValue, FALSE, hostOk)

Slots == 1..MaxSessions
NoToken == 0

VARIABLES
    plugged,     \* the HID devices physically present (what list_devices sees)
    events,      \* the watcher stream: lifecycle events not yet taken
    wpc,         \* watcher_task's position
    wlist,       \* scan_and_connect_devices: the listed devices still to visit
    wcur,        \* the device (or event info) the watcher is working on
    devices,     \* state.devices: the ids marked connected
    tokens,      \* state.tokens: id -> the token stored for it (NoToken: none)
    cancelled,   \* the tokens that have been cancelled
    sess,        \* the handle_device tasks: slot -> [pc, id]; its token is the slot
    decoded,     \* the latest process_input_n1 call: its arguments and result
    ran,         \* the latest dispatch on an action mode: its arguments and effect
    instance,    \* the settings the host stores for the dial's action instance
    last,        \* the latest handle_device_update call: its arguments and effect
    ident,       \* the latest get_device_id calls on two devices: infos and ids
    erred,       \* ids whose session broke on a read error, no session spawned since
    setup        \* per task, what its calls before the read loop returned

io == <<decoded, ran, instance, last, ident>>
vars == <<plugged, events, wpc, wlist, wcur, devices, tokens, cancelled, sess, io, erred, setup>>

\* The record of read errors (the log::error! line of the read error arm, per
\* device id) is kept only by the specifications that start it as Observed.
Unobserved == [on |-> FALSE, ids |-> {}]
Observed == [on |-> TRUE, ids |-> {}]
Note(record, id) == IF record.on THEN [record EXCEPT !.ids = @ \cup {id}] ELSE record
Forget(record, id) == IF record.on THEN [record EXCEPT !.ids = @ \ {id}] ELSE record

\* Likewise the setup results of a task: kept only where they start as NotCalled.
Unkept == [id |-> "", device |-> "off", host |-> "off"]
NotCalled == [id |-> "", device |-> "none", host |-> "none"]

FreeSession == [pc |-> "free", id |-> ""]

Nothing == [none |-> TRUE]

InitState ==
    /\ plugged \in SUBSET HidUniverse
    /\ events = << >>
    /\ wpc = "start"
    /\ wlist = << >>
    /\ wcur = None
    /\ devices = {}
    /\ tokens = [i \in Ids |-> NoToken]
    /\ cancelled = {}
    /\ sess = [s \in Slots |-> FreeSession]
    /\ ran = Nothing
    /\ last = Nothing

Init ==
    /\ InitState
    /\ setup = [s \in Slots |-> Unkept]
    /\ erred = Unobserved
    /\ instance = ActionSettingsDefault
    /\ decoded = Nothing
    /\ ident = Nothing

\* --------------------------------------------------------- the environment
StreamOpen == wpc \notin {"start", "failed", "done"}

Emit(kind, d) ==
    IF StreamOpen THEN events' = Append(events, [kind |-> kind, info |-> d])
    ELSE UNCHANGED events

Plug(d) ==
    /\ d \notin plugged
    /\ Len(events) < MaxEvents
    /\ plugged' = plugged \cup {d}
    /\ Emit("Connected", d)
    /\ UNCHANGED <<wpc, wlist, wcur, devices, tokens, cancelled, sess, io, erred, setup>>

Unplug(d) ==
    /\ d \in plugged
    /\ Len(events) < MaxEvents
    /\ plugged' = plugged \ {d}
    /\ Emit("Disconnected", d)
    /\ UNCHANGED <<wpc, wlist, wcur, devices, tokens, cancelled, sess, io, erred, setup>>

\* ------------------------------------------------------------ watcher_task
\* watcher.watch(&queries): Ok starts the first scan, Err returns at once.
WatchStart ==
    /\ wpc = "start"
    /\ \E ok \in BOOLEAN : wpc' = IF ok THEN "list" ELSE "failed"
    /\ UNCHANGED <<plugged, events, wlist, wcur, devices, tokens, cancelled, sess, io, erred, setup>>

\* What list_devices returns when it succeeds.
InPlugged(d) == d \in plugged
Listed == SelectSeq(HidList, InPlugged)

\* The for loop goes on with the next listed device, or the scan returns.
AfterDevice(rest) == IF rest = << >> THEN "next" ELSE "check"

\* scan_and_connect_devices: list_devices(&queries), Ok or Err.
ScanList ==
    /\ wpc = "list"
    /\ \/ /\ wlist' = Listed
          /\ wpc' = AfterDevice(Listed)
       \/ /\ wlist' = << >>
          /\ wpc' = "next"
    /\ UNCHANGED <<plugged, events, wcur, devices, tokens, cancelled, sess, io, erred, setup>>


ScanCheck_IgnoresDevices ==
    /\ wpc = "check"
    /\ LET dev == Head(wlist)
           id  == get_device_id(dev)
       IN /\ wlist' = Tail(wlist)
          /\ IF id = None
             THEN /\ wpc' = AfterDevice(Tail(wlist))
                  /\ wcur' = None
             ELSE /\ wpc' = "spawn"
                  /\ wcur' = Some(dev)
    /\ UNCHANGED <<plugged, events, devices, tokens, cancelled, sess, io, erred, setup>>

\* One turn of the for loop up to the contains_key check.
ScanCheck ==
    /\ wpc = "check"
    /\ LET dev == Head(wlist)
           id  == get_device_id(dev)
       IN /\ wlist' = Tail(wlist)
          /\ IF id = None \/ id[1] \in devices
             THEN /\ wpc' = AfterDevice(Tail(wlist))
                  /\ wcur' = None
             ELSE /\ wpc' = "spawn"
                  /\ wcur' = Some(dev)
    /\ UNCHANGED <<plugged, events, devices, tokens, cancelled, sess, io, erred, setup>>

FreeSlots == { s \in Slots : sess[s].pc = "free" }
LowestFree == CHOOSE s \in FreeSlots : \A t \in FreeSlots : s <= t

\* CancellationToken::new, tokens.insert(id, token), tokio::spawn(handle_device).
ScanSpawn ==
    /\ wpc = "spawn"
    /\ FreeSlots # {}
    /\ LET id == get_device_id(wcur[1])[1]
           s  == LowestFree
       IN /\ tokens' = [tokens EXCEPT ![id] = s]
          /\ sess' = [sess EXCEPT ![s] = [pc |-> "connect", id |-> id]]
    /\ wcur' = None
    /\ wpc' = AfterDevice(wlist)
    /\ erred' = Forget(erred, get_device_id(wcur[1])[1])
    /\ UNCHANGED <<plugged, events, wlist, devices, cancelled, io, setup>>

\* stream.next() yields Connected: scan again.
TakeConnected ==
    /\ wpc = "next"
    /\ events # << >>
    /\ Head(events).kind = "Connected"
    /\ events' = Tail(events)
    /\ wpc' = "list"
    /\ UNCHANGED <<plugged, wlist, wcur, devices, tokens, cancelled, sess, io, erred, setup>>

\* stream.next() yields Disconnected: tokens.remove(&id) and token.cancel().
TakeDisconnected ==
    /\ wpc = "next"
    /\ events # << >>
    /\ Head(events).kind = "Disconnected"
    /\ events' = Tail(events)
    /\ LET id == get_device_id(Head(events).info) IN
       IF id = None
       THEN UNCHANGED <<wpc, wcur, tokens, cancelled>>
       ELSE /\ wpc' = "disc_devices"
            /\ wcur' = id
            /\ tokens' = [tokens EXCEPT ![id[1]] = NoToken]
            /\ cancelled' = IF tokens[id[1]] = NoToken THEN cancelled
                            ELSE cancelled \cup {tokens[id[1]]}
    /\ UNCHANGED <<plugged, wlist, devices, sess, io, erred, setup>>

\* state.devices.write().await.remove(&id)
DiscDevices ==
    /\ wpc = "disc_devices"
    /\ devices' = devices \ {wcur[1]}
    /\ wpc' = "disc_unregister"
    /\ UNCHANGED <<plugged, events, wlist, wcur, tokens, cancelled, sess, io, erred, setup>>

\* unregister_device(id).await, its result ignored.
DiscUnregister ==
    /\ wpc = "disc_unregister"
    /\ wcur' = None
    /\ wpc' = "next"
    /\ UNCHANGED <<plugged, events, wlist, devices, tokens, cancelled, sess, io, erred, setup>>

\* A watcher that cancels every stored token when its stream ends.
StreamEnd_CancelsSessions ==
    /\ wpc = "next"
    /\ events = << >>
    /\ wpc' = "done"
    /\ cancelled' = cancelled \cup ({ tokens[i] : i \in Ids } \ {NoToken})
    /\ UNCHANGED <<plugged, events, wlist, wcur, devices, tokens, sess, io, erred, setup>>

\* stream.next() yields None: the loop breaks.
StreamEnd ==
    /\ wpc = "next"
    /\ events = << >>
    /\ wpc' = "done"
    /\ UNCHANGED <<plugged, events, wlist, wcur, devices, tokens, cancelled, sess, io, erred, setup>>

\* ----------------------------------------------------------- handle_device
Goto(s, pc) == sess' = [sess EXCEPT ![s].pc = pc]

\* The task returns: its slot is free again and its token is dropped.
End(s) ==
    /\ sess' = [sess EXCEPT ![s] = FreeSession]
    /\ cancelled' = cancelled \ {s}

\* The error paths before the read loop: tokens.remove(&device_id); return.
Abort(s) ==
    /\ tokens' = [tokens EXCEPT ![sess[s].id] = NoToken]
    /\ End(s)

\* What the device calls before registration can return.
SetupOutcomes == {"connect_err", "set_mode_err", "brightness_err", "ok"}

\* Device::connect(&dev_info, 3, N1_KEY_COUNT, N1_ENCODER_COUNT), set_mode(3),
\* sleep, set_brightness(50) (an error is only logged), clear, flush.
\* The log::error! lines of the calls before the read loop, per task.
NoteSetup(s, entry) ==
    setup' = IF setup[s] = Unkept THEN setup ELSE [setup EXCEPT ![s] = entry]

\* A set_brightness failure handled like the fatal ones.
ConnectWith_BrightnessAborts(s, r) ==
    /\ sess[s].pc = "connect"
    /\ IF r \in {"connect_err", "set_mode_err", "brightness_err"}
       THEN Abort(s)
       ELSE Goto(s, "register") /\ UNCHANGED <<tokens, cancelled>>
    /\ NoteSetup(s, [id |-> sess[s].id, device |-> r, host |-> "none"])
    /\ UNCHANGED <<plugged, events, wpc, wlist, wcur, devices, io, erred>>

ConnectWith(s, r) ==
    /\ sess[s].pc = "connect"
    /\ IF r \in {"connect_err", "set_mode_err"}
       THEN Abort(s)
       ELSE Goto(s, "register") /\ UNCHANGED <<tokens, cancelled>>
    /\ NoteSetup(s, [id |-> sess[s].id, device |-> r, host |-> "none"])
    /\ UNCHANGED <<plugged, events, wpc, wlist, wcur, devices, io, erred>>

Connect(s) == \E r \in SetupOutcomes : ConnectWith(s, r)

\* openaction::device_plugin::register_device(...)
RegisterWith(s, ok) ==
    /\ sess[s].pc = "register"
    /\ IF ok
       THEN Goto(s, "mark") /\ UNCHANGED <<tokens, cancelled>>
       ELSE Abort(s)
    /\ NoteSetup(s, [setup[s] EXCEPT !.host = IF ok THEN "registered" ELSE "register_err"])
    /\ UNCHANGED <<plugged, events, wpc, wlist, wcur, devices, io, erred>>

Register(s) == \E ok \in BOOLEAN : RegisterWith(s, ok)

\* state.devices.write().await.insert(device_id, ()); get_reader.
Mark(s) ==
    /\ sess[s].pc = "mark"
    /\ devices' = devices \cup {sess[s].id}
    /\ Goto(s, "loop")
    /\ UNCHANGED <<plugged, events, wpc, wlist, wcur, tokens, cancelled, io, erred, setup>>

\* After the loop: device.shutdown().await.ok(); state.devices.remove(&device_id)
LeaveLoop(s) ==
    /\ devices' = devices \ {sess[s].id}
    /\ Goto(s, "rm_tokens")

\* select!: reader.read(None) returns Ok with no update; the loop goes on.
ReadIdle(s) ==
    /\ sess[s].pc = "loop"
    /\ UNCHANGED vars

\* select!: reader.read(None) returns Err; break.
ReadErr(s) ==
    /\ sess[s].pc = "loop"
    /\ LeaveLoop(s)
    /\ erred' = Note(erred, sess[s].id)
    /\ UNCHANGED <<plugged, events, wpc, wlist, wcur, tokens, cancelled, io, setup>>

\* select!: token.cancelled() completes; break.
Cancelled(s) ==
    /\ sess[s].pc = "loop"
    /\ s \in cancelled
    /\ LeaveLoop(s)
    /\ UNCHANGED <<plugged, events, wpc, wlist, wcur, tokens, cancelled, io, erred, setup>>

\* state.tokens.write().await.remove(&device_id)
RemoveToken(s) ==
    /\ sess[s].pc = "rm_tokens"
    /\ tokens' = [tokens EXCEPT ![sess[s].id] = NoToken]
    /\ Goto(s, "unregister")
    /\ UNCHANGED <<plugged, events, wpc, wlist, wcur, devices, cancelled, io, erred, setup>>

\* unregister_device(device_id).await; the task ends.
Unregister(s) ==
    /\ sess[s].pc = "unregister"
    /\ End(s)
    /\ UNCHANGED <<plugged, events, wpc, wlist, wcur, devices, tokens, io, erred, setup>>

Environment == \E d \in HidUniverse : Plug(d) \/ Unplug(d)

Watcher ==
    \/ WatchStart
    \/ ScanList
    \/ ScanCheck
    \/ ScanSpawn
    \/ TakeConnected
    \/ TakeDisconnected
    \/ DiscDevices
    \/ DiscUnregister
    \/ StreamEnd

Session(s) ==
    \/ Connect(s)
    \/ Register(s)
    \/ Mark(s)
    \/ ReadIdle(s)
    \/ ReadErr(s)
    \/ Cancelled(s)
    \/ RemoveToken(s)
    \/ Unregister(s)

Next == Environment \/ Watcher \/ \E s \in Slots : Session(s)

\* The plugin with devices coming and going, the dial left alone.
Spec == Init /\ [][Next]_vars

\* The same program with the record of read errors kept.
InitReadErr ==
    /\ InitState
    /\ setup = [s \in Slots |-> Unkept]
    /\ erred = Observed
    /\ instance = ActionSettingsDefault
    /\ decoded = Nothing
    /\ ident = Nothing

SpecReadErr == InitReadErr /\ [][Next]_vars

\* handle_device alone: the devices present at start-up are scanned once,
\* nothing is plugged or unplugged afterwards, and each task's setup results
\* are kept.
InitSetup ==
    /\ InitState
    /\ erred = Unobserved
    /\ setup = [s \in Slots |-> NotCalled]
    /\ instance = ActionSettingsDefault
    /\ decoded = Nothing
    /\ ident = Nothing

NextSetup ==
    \/ WatchStart
    \/ ScanList
    \/ ScanCheck
    \/ ScanSpawn
    \/ StreamEnd
    \/ \E s \in Slots :
         \/ Connect(s)
         \/ Register(s)
         \/ Mark(s)
         \/ ReadErr(s)
         \/ RemoveToken(s)
         \/ Unregister(s)

SpecSetup == InitSetup /\ [][NextSetup]_vars

\* The scheduler runs every task that can take a step; whether a device is
\* plugged or unplugged, a read fails or the stream ends is up to the world.
WatcherStep ==
    \/ WatchStart
    \/ ScanList
    \/ ScanCheck
    \/ ScanSpawn
    \/ TakeConnected
    \/ TakeDisconnected
    \/ DiscDevices
    \/ DiscUnregister

SessionStep(s) ==
    \/ Connect(s)
    \/ Register(s)
    \/ Mark(s)
    \/ Cancelled(s)
    \/ RemoveToken(s)
    \/ Unregister(s)

Fairness == WF_vars(WatcherStep) /\ \A s \in Slots : WF_vars(SessionStep(s))

FairSpec == Spec /\ Fairness

\* ------------------------------------------------------ the read loop's updates
EncoderIndices == 0..(N1_ENCODER_COUNT - 1)
Keys == 0..MaxKey
TwistVals == (0 - MaxTwist)..MaxTwist

\* DeviceStateUpdate
Updates ==
    [kind : {"EncoderTwist"}, index : EncoderIndices, value : TwistVals]
    \cup [kind : {"EncoderDown", "EncoderUp"}, index : EncoderIndices]
    \cup [kind : {"ButtonDown", "ButtonUp"}, index : Keys]

CustomCommands == {"", "notify-send dial"}
SettingsSet == [mode : Modes, cw_command : CustomCommands, ccw_command : CustomCommands]

\* select!: reader.read(None) returns Ok(updates); handle_device_update runs
\* for an update and the loop goes on, whatever the host call returned.
ReadUpdate(s) ==
    /\ sess[s].pc = "loop"
    /\ \E u \in Updates, shell \in ShellOutcomes, hostOk \in BOOLEAN :
         last' = [device |-> sess[s].id, update |-> u, shell |-> shell,
                  hostOk |-> hostOk,
                  effect |-> handle_device_update(sess[s].id, u, shell, hostOk)]
    /\ UNCHANGED <<plugged, events, wpc, wlist, wcur, devices, tokens, cancelled,
                   sess, decoded, ran, instance, ident, erred, setup>>

InitUpdate ==
    /\ InitState
    /\ setup = [s \in Slots |-> Unkept]
    /\ erred = Unobserved
    /\ instance \in SettingsSet
    /\ decoded = Nothing
    /\ ident = Nothing

NextUpdate ==
    \/ WatchStart
    \/ ScanList
    \/ ScanCheck
    \/ ScanSpawn
    \/ StreamEnd
    \/ \E s \in Slots :
         \/ Connect(s)
         \/ Register(s)
         \/ Mark(s)
         \/ ReadUpdate(s)
         \/ ReadErr(s)
         \/ RemoveToken(s)
         \/ Unregister(s)

\* The plugin with the devices present at start left plugged in, the dial
\* and the buttons in use.
SpecUpdate == InitUpdate /\ [][NextUpdate]_vars

\* ------------------------------------------------ the functions on their own
\* The reader holds any two bytes read from the device.
InitInput ==
    /\ InitState
    /\ setup = [s \in Slots |-> Unkept]
    /\ erred = Unobserved
    /\ plugged = HidUniverse
    /\ instance = ActionSettingsDefault
    /\ decoded \in [input : Bytes, input_state : Bytes, result : {Nothing}]
    /\ ident = Nothing

\* The reader calls process_input_n1 on them.
Decode ==
    /\ decoded.result = Nothing
    /\ decoded' = [decoded EXCEPT
                     !.result = process_input_n1(decoded.input, decoded.input_state)]
    /\ UNCHANGED <<plugged, events, wpc, wlist, wcur, devices, tokens, cancelled,
                   sess, ran, instance, last, ident, erred, setup>>

SpecInput == InitInput /\ [][Decode]_vars

\* i8 directions: the twist values and the two ends of the range.
Directions == TwistVals \cup {-128, 127}

\* The match on the action mode, on any settings, direction and outcome.
Dispatch ==
    /\ \E settings \in SettingsSet, direction \in Directions, outcome \in ShellOutcomes :
         ran' = [settings |-> settings, direction |-> direction, outcome |-> outcome,
                 effect |-> RunMode(settings, direction, outcome)]
    /\ UNCHANGED <<plugged, events, wpc, wlist, wcur, devices, tokens, cancelled,
                   sess, decoded, instance, last, ident, erred, setup>>

SpecCommand == Init /\ [][Dispatch]_vars

\* HidDeviceInfo values around the N1's ids: u16 vendor and product ids, an
\* optional serial number.
VendorIds == {0, N1_VID, OtherVid, N1_PID, 65535}
ProductIds == {0, N1_PID, N1_PID + 1, N1_VID, 65535}
SerialNumbers == {None, Some(""), Some("A"), Some("B"), Some("N1-A")}
HidInfos == [vendor_id : VendorIds, product_id : ProductIds, serial_number : SerialNumbers]

\* Any two devices reported by the HID layer.
InitIdent ==
    /\ InitState
    /\ setup = [s \in Slots |-> Unkept]
    /\ erred = Unobserved
    /\ plugged = {}
    /\ instance = ActionSettingsDefault
    /\ decoded = Nothing
    /\ ident \in [a : HidInfos, b : HidInfos, called : {FALSE}, id_a : {None}, id_b : {None}]

\* get_device_id on both.
Identify ==
    /\ ~ident.called
    /\ ident' = [ident EXCEPT !.called = TRUE,
                              !.id_a = get_device_id(ident.a),
                              !.id_b = get_device_id(ident.b)]
    /\ UNCHANGED <<plugged, events, wpc, wlist, wcur, devices, tokens, cancelled,
                   sess, decoded, ran, instance, last, erred, setup>>

SpecIdent == InitIdent /\ [][Identify]_vars

\* ------------------------------------------------------------------ claims
Running(i) == { s \in Slots : sess[s].pc # "free" /\ sess[s].id = i }
InLoop(i) == { s \in Slots : sess[s].pc = "loop" /\ sess[s].id = i }

\* C1: at any time at most one handle_device session is running per device
\* id (and hence at most one is in its read loop).
C1_OneSessionPerDevice == \A i \in Ids : Cardinality(Running(i)) <= 1

\* A Connected event for device id i waits in the stream.
ConnectedPending(i) ==
    \E k \in 1..Len(events) :
        events[k].kind = "Connected" /\ get_device_id(events[k].info) = Some(i)

\* C2: when the watcher has taken Disconnected for a device id while a
\* session of that id is in its read loop, that session eventually ends, with
\* the id in neither state.devices nor state.tokens, unless a new Connected
\* event for the id arrives.
C2_DisconnectedEndsSession ==
    \A s \in Slots, i \in Ids :
        (wpc = "disc_devices" /\ wcur = Some(i) /\ sess[s] = [pc |-> "loop", id |-> i])
        ~> ((sess[s].pc = "free" /\ i \notin devices /\ tokens[i] = NoToken)
            \/ ConnectedPending(i))

Decoded == decoded.result # Nothing

\* C3: raw input 50 is an EncoderTwist of -1 and raw input 51 one of +1, on
\* encoder 2 only (encoders 0 and 1 get 0), whatever the state byte.
C3_TwistCodes ==
    (Decoded /\ decoded.input \in {50, 51}) =>
        /\ decoded.result.ok
        /\ decoded.result.kind = "EncoderTwist"
        /\ Len(decoded.result.vec) = 3
        /\ EncoderAt(decoded.result.vec, 0) = 0
        /\ EncoderAt(decoded.result.vec, 1) = 0
        /\ EncoderAt(decoded.result.vec, 2) = (IF decoded.input = 50 THEN -1 ELSE 1)

C3_Witness ==
    /\ Decoded
    /\ decoded.input = 50
    /\ decoded.input_state = 255
    /\ decoded.result.ok
    /\ EncoderAt(decoded.result.vec, 2) = -1

\* C4: raw input 35 is an EncoderStateChange with encoder 2 pressed when the
\* state byte is 1 and released when it is 0, encoders 0 and 1 not pressed.
C4_PressCode ==
    (Decoded /\ decoded.input = 35) =>
        /\ decoded.result.ok
        /\ decoded.result.kind = "EncoderStateChange"
        /\ Len(decoded.result.vec) = 3
        /\ EncoderAt(decoded.result.vec, 0) = FALSE
        /\ EncoderAt(decoded.result.vec, 1) = FALSE
        /\ (decoded.input_state = 1 => EncoderAt(decoded.result.vec, 2) = TRUE)
        /\ (decoded.input_state = 0 => EncoderAt(decoded.result.vec, 2) = FALSE)

C4_Witness ==
    /\ Decoded
    /\ decoded.input = 35
    /\ decoded.input_state = 1
    /\ decoded.result.ok
    /\ decoded.result.vec = <<FALSE, FALSE, TRUE>>

\* C9: every raw input other than 35, 50 and 51 gives the BadData error and
\* no encoder or button event, whatever the state byte.
C9_OtherCodesAreBadData ==
    (Decoded /\ decoded.input \notin {35, 50, 51}) =>
        /\ ~decoded.result.ok
        /\ decoded.result.err = "BadData"
        /\ DOMAIN decoded.result = {"ok", "err"}

C9_Witness ==
    /\ Decoded
    /\ decoded.input = 34
    /\ decoded.input_state = 1
    /\ ~decoded.result.ok

Handled == last # Nothing
DialTwist(u) == u.kind = "EncoderTwist" /\ u.index = 2

\* C5: a twist of encoder 2 runs a local command and is not forwarded to the
\* host; a twist of any other encoder is forwarded as encoder_change with the
\* same index and value and runs no local command.
C5_TwistRouting ==
    (Handled /\ last.update.kind = "EncoderTwist") =>
        IF last.update.index = 2
        THEN /\ Len(last.effect.cmds) = 1
             /\ last.effect.host = << >>
        ELSE /\ last.effect.cmds = << >>
             /\ last.effect.host =
                  <<[call |-> "encoder_change", device |-> last.device,
                     index |-> last.update.index, value |-> <<last.update.value>>]>>

C5_Witness ==
    /\ Handled
    /\ last.update = [kind |-> "EncoderTwist", index |-> 2, value |-> -1]
    /\ last.effect.cmds # << >>
    /\ last.effect.host = << >>

\* The host call that matches an update.
MatchingCall(u) ==
    CASE u.kind = "EncoderDown" -> "encoder_down"
      [] u.kind = "EncoderUp" -> "encoder_up"
      [] u.kind = "ButtonDown" -> "key_down"
      [] u.kind = "ButtonUp" -> "key_up"
      [] u.kind = "EncoderTwist" -> "encoder_change"

\* C6: for every update other than a dial twist, handle_device_update makes
\* exactly one host call of the matching kind with the session's device id
\* and the update's index, runs no shell command, and the session stays in
\* its read loop whether or not the host call failed.
C6_OneHostCall ==
    [][(last' # last /\ ~DialTwist(last'.update)) =>
          /\ last'.effect.cmds = << >>
          /\ last'.effect.host =
               <<[call |-> MatchingCall(last'.update), device |-> last'.device,
                  index |-> last'.update.index,
                  value |-> IF last'.update.kind = "EncoderTwist"
                            THEN <<last'.update.value>> ELSE << >>]>>
          /\ \E s \in Slots :
                /\ sess[s] = [pc |-> "loop", id |-> last'.device]
                /\ sess'[s] = sess[s]
          /\ sess' = sess]_vars

C6_Witness ==
    /\ Handled
    /\ last.update = [kind |-> "EncoderUp", index |-> 2]
    /\ ~last.hostOk
    /\ last.effect.host # << >>
    /\ InLoop(last.device) # {}

\* The command each mode runs clockwise and counter-clockwise.
ClockwiseCommand(settings) ==
    CASE settings.mode = "Volume" -> "amixer sset Master 5%+"
      [] settings.mode = "MediaTrack" -> "playerctl next"
      [] settings.mode = "MediaSeek" -> "playerctl position 5+"
      [] settings.mode = "Scroll" -> "xdotool click --repeat 3 5"
      [] settings.mode = "Brightness" -> "brightnessctl set 10%+"
      [] settings.mode = "Custom" -> settings.cw_command

CounterClockwiseCommand(settings) ==
    CASE settings.mode = "Volume" -> "amixer sset Master 5%-"
      [] settings.mode = "MediaTrack" -> "playerctl previous"
      [] settings.mode = "MediaSeek" -> "playerctl position 5-"
      [] settings.mode = "Scroll" -> "xdotool click --repeat 3 4"
      [] settings.mode = "Brightness" -> "brightnessctl set 10%-"
      [] settings.mode = "Custom" -> settings.ccw_command

Dispatched == ran # Nothing

\* C7: the command run for a rotation is a fixed function of mode and
\* direction: direction > 0 selects the clockwise command, every other
\* direction the counter-clockwise one; an empty Custom command runs nothing
\* and returns Ok.
C7_CommandTable ==
    Dispatched =>
        LET cmd == IF ran.direction > 0 THEN ClockwiseCommand(ran.settings)
                   ELSE CounterClockwiseCommand(ran.settings)
        IN IF ran.settings.mode = "Custom" /\ cmd = ""
           THEN ran.effect.cmds = << >> /\ ran.effect.result = "Ok"
           ELSE ran.effect.cmds = <<cmd>>

C7_Witness ==
    /\ Dispatched
    /\ ran.settings.mode = "Scroll"
    /\ ran.direction = 0
    /\ ran.effect.cmds = <<"xdotool click --repeat 3 4">>

\* C8: on a dial twist the command of the action mode stored in the action
\* instance's settings is run.
C8_DialRunsStoredMode ==
    (Handled /\ DialTwist(last.update)) =>
        last.effect.cmds =
            IF last.update.value > 0
            THEN (IF ClockwiseCommand(instance) = "" THEN << >>
                  ELSE <<ClockwiseCommand(instance)>>)
            ELSE (IF CounterClockwiseCommand(instance) = "" THEN << >>
                  ELSE <<CounterClockwiseCommand(instance)>>)

\* The device is no N1 or has no serial number.
NoDeviceId(dev) ==
    dev.vendor_id # 768 \/ dev.product_id # 12295 \/ dev.serial_number = None
IdOf(dev) == "N1-" \o dev.serial_number[1]

\* C10: a scan spawns no session, and leaves state.tokens and state.devices
\* as they are, for a listed device whose id is in state.devices and for one
\* that is no N1 or has no serial number; a failed listing changes nothing;
\* a session is spawned only by the scan, for the device it visits.
C10_ScanConnectsOnlyNew ==
    [][/\ (wpc = "check" /\ wlist' = Tail(wlist)
             /\ (NoDeviceId(Head(wlist)) \/ IdOf(Head(wlist)) \in devices))
          => (wpc' # "spawn" /\ UNCHANGED <<sess, tokens, devices>>)
       /\ (wpc = "list" /\ wpc' = "next")
          => UNCHANGED <<sess, tokens, devices, cancelled>>
       /\ (wpc' = "spawn" /\ wpc # "spawn")
          => (/\ wpc = "check"
              /\ wcur' = Some(Head(wlist))
              /\ ~NoDeviceId(Head(wlist))
              /\ IdOf(Head(wlist)) \notin devices)
       /\ \A s \in Slots :
            (sess[s].pc = "free" /\ sess'[s].pc # "free")
            => (wpc = "spawn" /\ ~NoDeviceId(wcur[1]) /\ sess'[s].id = IdOf(wcur[1]))
      ]_vars

C10_Witness ==
    /\ wpc = "check"
    /\ ~NoDeviceId(Head(wlist))
    /\ IdOf(Head(wlist)) \in devices
    /\ InLoop(IdOf(Head(wlist))) # {}

\* C14: a command that exits with non-zero status gives Err from
\* execute_volume, execute_scroll, execute_brightness and execute_custom and
\* Ok from execute_media_track and execute_media_seek; a failure to spawn the
\* shell gives Err from all six.
C14_ExitStatusHandling ==
    (Dispatched /\ ran.effect.cmds # << >>) =>
        /\ (ran.outcome = "exit_nonzero") =>
              ran.effect.result =
                 (IF ran.settings.mode \in {"MediaTrack", "MediaSeek"} THEN "Ok" ELSE "Err")
        /\ (ran.outcome = "spawn_failed") => ran.effect.result = "Err"

C14_Witness ==
    /\ Dispatched
    /\ ran.settings.mode = "MediaTrack"
    /\ ran.outcome = "exit_nonzero"
    /\ ran.effect.cmds = <<"playerctl next">>
    /\ ran.effect.result = "Ok"

Identified == ident # Nothing /\ ident.called

\* What the claim says get_device_id returns for a device.
IsN1WithSerial(dev) ==
    dev.vendor_id = 768 /\ dev.product_id = 12295 /\ dev.serial_number # None

\* C16: get_device_id returns 'N1-<serial>' exactly when the info has vendor
\* id 0x0300, product id 0x3007 and a serial number, and none otherwise; two
\* devices get the same id only if they have the same serial number.
C16_DeviceIds ==
    Identified =>
        /\ ident.id_a = (IF IsN1WithSerial(ident.a)
                         THEN Some("N1-" \o ident.a.serial_number[1]) ELSE None)
        /\ ident.id_b = (IF IsN1WithSerial(ident.b)
                         THEN Some("N1-" \o ident.b.serial_number[1]) ELSE None)
        /\ (ident.id_a # None /\ ident.id_a = ident.id_b)
              => ident.a.serial_number = ident.b.serial_number

C16_Witness ==
    /\ Identified
    /\ ident.a.serial_number = Some("A")
    /\ ident.b.serial_number = Some("N1-A")
    /\ ident.a.vendor_id = 768 /\ ident.b.vendor_id = 768
    /\ ident.a.product_id = 12295 /\ ident.b.product_id = 12295
    /\ ident.id_a = Some("N1-A")
    /\ ident.id_b = Some("N1-N1-A")

\* The watcher's step that takes an event of the given kind off the stream.
Takes(kind) ==
    /\ wpc = "next"
    /\ events # << >>
    /\ Head(events).kind = kind
    /\ events' = Tail(events)

Scanning(pc) == pc \in {"list", "check", "spawn"}

\* C15: when watch() succeeds the watcher scans once before it takes any
\* event and then scans once per Connected event; when watch() fails no scan
\* runs and no session is spawned; when the stream ends the watcher stops
\* and cancels no session.
C15_WatcherScans ==
    [][ /\ (wpc = "start") =>
              /\ wpc' \in {"start", "list", "failed"}
              /\ events' = << >>
              /\ \A s \in Slots : sess[s].pc = "free"
        /\ (Len(events') < Len(events)) => (Takes("Connected") \/ Takes("Disconnected"))
        /\ (Scanning(wpc') /\ ~Scanning(wpc)) =>
              (wpc' = "list" /\ (wpc = "start" \/ Takes("Connected")))
        /\ Takes("Connected") => wpc' = "list"
        /\ Takes("Disconnected") => ~Scanning(wpc')
        /\ (wpc = "failed") =>
              /\ wpc' = "failed"
              /\ \A s \in Slots : sess[s].pc = "free" /\ sess'[s].pc = "free"
        /\ (wpc # "done" /\ wpc' = "done") =>
              /\ wpc = "next"
              /\ events = << >>
              /\ UNCHANGED <<cancelled, tokens, devices, sess>>
        /\ (wpc = "done") =>
              /\ wpc' = "done"
              /\ cancelled' \subseteq cancelled
              /\ \A s \in Slots : sess[s].pc = "free" => sess'[s].pc = "free"
      ]_vars

\* The stream has ended and a session is still in its read loop, not cancelled.
C15_Witness ==
    /\ wpc = "done"
    /\ \E s \in Slots : sess[s].pc = "loop" /\ s \notin cancelled /\ sess[s].id \in devices

SetupFailed(s) ==
    \/ setup[s].device \in {"connect_err", "set_mode_err"}
    \/ setup[s].host = "register_err"

\* C12: when Device::connect, set_mode or register_device fails, the session
\* has ended, its id is not in state.devices, it is not in the read loop and
\* the id's entry in state.tokens is removed; when only set_brightness fails
\* the session is not aborted: it goes on to register_device, and once that
\* returns Ok it inserts its id and enters the read loop.
C12_SetupFailures ==
    \A s \in Slots :
       /\ SetupFailed(s) =>
             /\ sess[s].pc = "free"
             /\ setup[s].id \notin devices
             /\ tokens[setup[s].id] = NoToken
       /\ (setup[s].device = "brightness_err" /\ setup[s].host = "none") =>
             sess[s] = [pc |-> "register", id |-> setup[s].id]
       /\ (setup[s].device = "brightness_err" /\ setup[s].host = "registered") =>
             /\ sess[s].pc \in {"mark", "loop", "rm_tokens", "unregister", "free"}
             /\ sess[s].pc = "loop" => setup[s].id \in devices
       /\ sess[s].pc \in {"mark", "loop"} => setup[s].host = "registered"
       /\ sess[s].pc \in {"connect", "register"} => sess[s].id \notin devices

\* register_device failed after a clean device setup: the session has ended
\* and the id is in neither map.
C12_Witness ==
    \E s \in Slots :
       /\ setup[s] = [id |-> "N1-A", device |-> "ok", host |-> "register_err"]
       /\ sess[s].pc = "free"
       /\ tokens["N1-A"] = NoToken
       /\ "N1-A" \notin devices

\* The other case of C12: a session whose set_brightness failed is in its
\* read loop, and the device was registered.
C12_BrightnessCase ==
    \E s \in Slots :
       /\ setup[s] = [id |-> "N1-A", device |-> "brightness_err", host |-> "registered"]
       /\ sess[s].pc = "loop"
       /\ "N1-A" \in devices

\* The watcher's step that completes its handling of Disconnected: the
\* unregister_device call returns.
DisconnectedHandled == wpc = "disc_unregister" /\ wpc' = "next"

\* C11: right after the watcher has handled Disconnected for an N1 id, the id
\* is in neither state.tokens nor state.devices, the token stored for it was
\* cancelled and unregister_device was called for it; a Disconnected event
\* that yields no id changes neither map and cancels nothing.
C11_DisconnectedCleansUp ==
    [][ /\ Takes("Disconnected") =>
              LET info == Head(events).info IN
              IF NoDeviceId(info)
              THEN UNCHANGED <<tokens, devices, cancelled, wpc>>
              ELSE /\ tokens'[IdOf(info)] = NoToken
                   /\ tokens[IdOf(info)] # NoToken => tokens[IdOf(info)] \in cancelled'
                   /\ wcur' = Some(IdOf(info))
                   /\ wpc' = "disc_devices"
        /\ (wpc = "disc_devices" /\ wpc' # wpc) => wpc' = "disc_unregister"
        /\ DisconnectedHandled =>
              /\ tokens'[wcur[1]] = NoToken
              /\ wcur[1] \notin devices'
      ]_vars

\* C13: after a session's read returned an error the session has left the
\* read loop and removed its id from state.devices, and the id stays out of
\* state.devices until a scan spawns a new session for it.
C13_ReadErrorEndsConnection ==
    \A i \in erred.ids : i \notin devices
====
